---- MODULE Spec2Model ----
(***************************************************************************)
(* computeStatistics.py: descriptive statistics over the numeric tokens of *)
(* a file, with a hand-written number parser, Newton square root and       *)
(* selection sort.                                                          *)
(*                                                                         *)
(* Python floats are IEEE-754 binary64.  They are modelled by a binary     *)
(* floating-point format of the same shape, scaled down so that its        *)
(* arithmetic fits the model checker's integers: round-to-nearest-even,    *)
(* gradual underflow, overflow to infinity, NaN.  A finite float is the    *)
(* integer number of quanta (units of 2^-FracBits) it is worth, with at    *)
(* most Prec significant bits.  binary64 has Prec = 53, FracBits = 1074    *)
(* and a largest finite value of (2^53 - 1) * 2^971; the signed zero is    *)
(* not modelled because no comparison of the program tells -0.0 from 0.0.  *)
(***************************************************************************)
EXTENDS Integers, Sequences, FiniteSets, TLC

\* ------------------------------------------------------------------ bounds
\* Significand bits of the float format.
Prec == 4
\* 1.0 is 2^FracBits quanta; one quantum is the smallest subnormal.
FracBits == 6
\* The largest finite float is (2^Prec - 1) * 2^TopExp quanta.
TopExp == 8
\* Longest token given to parse_number on its own.
MaxTokLen == 5
\* Most tokens in the input file.
MaxTokens == 4
\* Longest list given to selection_sort on its own.
MaxSortLen == 4

\* ------------------------------------------------------- float arithmetic
RECURSIVE Pow2(_)
Pow2(n) == IF n = 0 THEN 1 ELSE 2 * Pow2(n - 1)

One == Pow2(FracBits)
MaxFinite == (Pow2(Prec) - 1) * Pow2(TopExp)
Inf == 2 * MaxFinite + 2
NaN == 3 * MaxFinite + 3
\* What a division that raised ZeroDivisionError gives in place of a float.
ZeroDivisionError == 4 * MaxFinite + 4

IsNaN(x) == x = NaN
IsInf(x) == x = Inf \/ x = -Inf
IsFinite(x) == x \in (-MaxFinite)..MaxFinite

Abs(n) == IF n < 0 THEN -n ELSE n
Sgn(n) == IF n < 0 THEN -1 ELSE 1

\* The smallest power of two s with q \div s < 2^Prec.
RECURSIVE Scale(_, _)
Scale(q, s) == IF q \div s < Pow2(Prec) THEN s ELSE Scale(q, 2 * s)

\* The float nearest to a / den quanta (a >= 0, den > 0), ties to the even
\* significand; Inf when that is beyond the largest finite float.
RoundMag(a, den) ==
    LET q == a \div den
        r == a % den
        s == Scale(q, 1)
        m == q \div s
        low == q % s
        h == s \div 2
        up == IF s = 1
              THEN 2 * r > den \/ (2 * r = den /\ m % 2 = 1)
              ELSE low > h \/ (low = h /\ r > 0) \/ (low = h /\ r = 0 /\ m % 2 = 1)
        res == (IF up THEN m + 1 ELSE m) * s
    IN  IF res > MaxFinite THEN Inf ELSE res

\* Correct rounding of the rational num / den quanta.
Round(num, den) ==
    LET sg == Sgn(num) * Sgn(den)
    IN  sg * RoundMag(Abs(num), Abs(den))

\* float + float
FAdd(x, y) ==
    IF IsNaN(x) \/ IsNaN(y) THEN NaN
    ELSE IF IsInf(x) THEN (IF y = -x THEN NaN ELSE x)
    ELSE IF IsInf(y) THEN y
    ELSE Round(x + y, 1)

\* float - float
FSub(x, y) == FAdd(x, IF IsNaN(y) THEN NaN ELSE -y)

\* float * float
FMul(x, y) ==
    IF IsNaN(x) \/ IsNaN(y) THEN NaN
    ELSE IF IsInf(x) \/ IsInf(y)
         THEN (IF x = 0 \/ y = 0 THEN NaN ELSE Sgn(x) * Sgn(y) * Inf)
    ELSE Round(x * y, One)

\* float / float
FDiv(x, y) ==
    IF y = 0 THEN ZeroDivisionError
    ELSE IF IsNaN(x) \/ IsNaN(y) THEN NaN
    ELSE IF IsInf(x) THEN (IF IsInf(y) THEN NaN ELSE Sgn(x) * Sgn(y) * Inf)
    ELSE IF IsInf(y) THEN 0
    ELSE Round(x * One, y)

\* Comparisons: every comparison with NaN is false.
FLt(x, y) == ~IsNaN(x) /\ ~IsNaN(y) /\ x < y
FGe(x, y) == ~IsNaN(x) /\ ~IsNaN(y) /\ x >= y
FEq(x, y) == ~IsNaN(x) /\ ~IsNaN(y) /\ x = y

\* int -> float, as int + float and float / int convert their int operand:
\* correctly rounded, OverflowError when beyond the largest finite float.
IntFits(n) == Round(n * One, 1) # Inf
IntToFloat(n) == Round(n * One, 1)

\* int / int (true division of two ints, correctly rounded), a < b here.
IntTrueDiv(a, b) == Round(a * One, b)

\* ------------------------------------------------------------ parse_number
Digit == {"0", "1", "2", "3", "4", "5", "6", "7", "8", "9"}
\* ord(c) - ord("0")
DigitVal(c) ==
    CASE c = "0" -> 0 [] c = "1" -> 1 [] c = "2" -> 2 [] c = "3" -> 3
      [] c = "4" -> 4 [] c = "5" -> 5 [] c = "6" -> 6 [] c = "7" -> 7
      [] c = "8" -> 8 [] c = "9" -> 9

\* The whitespace str.strip() removes (one character stands for all).
Whitespace == {" "}

RECURSIVE lstrip(_)
lstrip(s) == IF s # <<>> /\ Head(s) \in Whitespace THEN lstrip(Tail(s)) ELSE s
RECURSIVE rstrip(_)
rstrip(s) ==
    IF s # <<>> /\ s[Len(s)] \in Whitespace
    THEN rstrip(SubSeq(s, 1, Len(s) - 1)) ELSE s
strip(s) == rstrip(lstrip(s))

\* while i < len(s) and "0" <= s[i] <= "9": the digit run from position i
\* (1-based here), accumulating part * 10 + digit and div * 10.
RECURSIVE ScanDigits(_, _, _, _, _)
ScanDigits(s, i, part, div, has_digit) ==
    IF i <= Len(s) /\ s[i] \in Digit
    THEN ScanDigits(s, i + 1, part * 10 + DigitVal(s[i]), div * 10, TRUE)
    ELSE [i |-> i, part |-> part, div |-> div, has_digit |-> has_digit]

\* Mutant: leftover characters are not looked at.
InvalidNumberNoLeftover(has_digit, i, s) == ~has_digit

\* if not has_digit or i != len(s): raise ValueError("Invalid number")
InvalidNumber(has_digit, i, s) == ~has_digit \/ i # Len(s) + 1

ValueError == [kind |-> "ValueError", val |-> 0]
OverflowError == [kind |-> "OverflowError", val |-> 0]
Returned(v) == [kind |-> "ok", val |-> v]

parse_number(token) ==
    LET s == strip(token)
    IN  IF s = <<>> THEN ValueError
        ELSE
        LET sign == IF s[1] = "-" THEN -One ELSE One
            i0 == IF s[1] = "-" \/ s[1] = "+" THEN 2 ELSE 1
            ip == ScanDigits(s, i0, 0, 1, FALSE)
            fp == IF ip.i <= Len(s) /\ s[ip.i] = "."
                  THEN ScanDigits(s, ip.i + 1, 0, 1, ip.has_digit)
                  ELSE [i |-> ip.i, part |-> 0, div |-> 1, has_digit |-> ip.has_digit]
        IN  IF InvalidNumber(fp.has_digit, fp.i, s) THEN ValueError
            ELSE IF ~IntFits(ip.part) THEN OverflowError
            ELSE Returned(FMul(sign, FAdd(IntToFloat(ip.part), IntTrueDiv(fp.part, fp.div))))

\* ------------------------------------------------------------- sqrt_newton
\* for _ in range(25)
SqrtIterations == 25
Half == One \div 2

\* Mutant: the seed is x itself.
SqrtSeedIsX(x) == x

\* guess = x if x >= 1.0 else 1.0
SqrtSeed(x) == IF FGe(x, One) THEN x ELSE One

\* guess = 0.5 * (guess + x / guess)
NewtonStep(x, guess) ==
    IF FDiv(x, guess) = ZeroDivisionError THEN ZeroDivisionError
    ELSE FMul(Half, FAdd(guess, FDiv(x, guess)))

RECURSIVE NewtonLoop(_, _, _)
NewtonLoop(x, guess, n) ==
    IF n = 0 \/ guess = ZeroDivisionError THEN guess
    ELSE NewtonLoop(x, NewtonStep(x, guess), n - 1)

sqrt_newton(x) ==
    IF FEq(x, 0) THEN 0 ELSE NewtonLoop(x, SqrtSeed(x), SqrtIterations)

\* ---------------------------------------------------------- selection_sort
\* Mutant: the comparison is turned round.
RECURSIVE MinIndexReversed(_, _, _)
MinIndexReversed(arr, min_index, j) ==
    IF j > Len(arr) THEN min_index
    ELSE MinIndexReversed(arr, IF FLt(arr[min_index], arr[j]) THEN j ELSE min_index, j + 1)

\* for j in range(i + 1, n): if arr[j] < arr[min_index]: min_index = j
RECURSIVE MinIndex(_, _, _)
MinIndex(arr, min_index, j) ==
    IF j > Len(arr) THEN min_index
    ELSE MinIndex(arr, IF FLt(arr[j], arr[min_index]) THEN j ELSE min_index, j + 1)

\* arr[i], arr[min_index] = arr[min_index], arr[i]
Swap(arr, i, k) == [arr EXCEPT ![i] = arr[k], ![k] = arr[i]]

\* for i in range(n)
RECURSIVE SortFrom(_, _)
SortFrom(arr, i) ==
    IF i > Len(arr) THEN arr
    ELSE SortFrom(Swap(arr, i, MinIndex(arr, i, i + 1)), i + 1)

\* Mutant: arr = values, without the copy.
selection_sort_in_place(values) ==
    [arr |-> SortFrom(values, 1), values |-> SortFrom(values, 1)]

\* arr = values[:] sorts a copy: the call returns arr and leaves the caller's
\* list, which is given back beside it, as it was.
selection_sort(values) == [arr |-> SortFrom(values, 1), values |-> values]

\* -------------------------------------------------------------------- mean
RECURSIVE SumFrom(_, _, _)
SumFrom(values, k, total) ==
    IF k > Len(values) THEN total
    ELSE SumFrom(values, k + 1, FAdd(total, values[k]))

mean(values) == FDiv(SumFrom(values, 1, 0), IntToFloat(Len(values)))

\* ------------------------------------------------------------------ median
\* Mutant: the even case is forgotten, the element at mid is returned.
median_single_middle(sorted_vals) == sorted_vals[(Len(sorted_vals) \div 2) + 1]

median(sorted_vals) ==
    LET n == Len(sorted_vals)
        mid == n \div 2
    IN  IF n % 2 = 1 THEN sorted_vals[mid + 1]
        ELSE FDiv(FAdd(sorted_vals[mid], sorted_vals[mid + 1]), 2 * One)

\* -------------------------------------------------------------------- mode
\* counts: a dict, kept as its items in insertion order.
\* counts[v] = counts.get(v, 0) + 1
CountsPut(counts, v) ==
    IF \E p \in 1..Len(counts) : FEq(counts[p].k, v)
    THEN LET p == CHOOSE q \in 1..Len(counts) : FEq(counts[q].k, v)
         IN  [counts EXCEPT ![p].c = @ + 1]
    ELSE Append(counts, [k |-> v, c |-> 1])

RECURSIVE CountsFrom(_, _, _)
CountsFrom(values, i, counts) ==
    IF i > Len(values) THEN counts
    ELSE CountsFrom(values, i + 1, CountsPut(counts, values[i]))

\* for c in counts.values(): if c > max_count: max_count = c
RECURSIVE MaxCount(_, _, _)
MaxCount(counts, p, max_count) ==
    IF p > Len(counts) THEN max_count
    ELSE MaxCount(counts, p + 1, IF counts[p].c > max_count THEN counts[p].c ELSE max_count)

\* Mutant: a maximum count of 1 is not taken as "no mode".
NoRepeatsBelowOne(max_count) == max_count < 1

\* if max_count <= 1: return []
NoRepeats(max_count) == max_count <= 1

\* for k, c in counts.items(): if c == max_count: modes.append(k)
RECURSIVE ModesFrom(_, _, _, _)
ModesFrom(counts, p, max_count, modes) ==
    IF p > Len(counts) THEN modes
    ELSE ModesFrom(counts, p + 1, max_count,
                   IF counts[p].c = max_count THEN Append(modes, counts[p].k) ELSE modes)

mode(values) ==
    LET counts == CountsFrom(values, 1, <<>>)
        max_count == MaxCount(counts, 1, 0)
    IN  IF NoRepeats(max_count) THEN <<>> ELSE ModesFrom(counts, 1, max_count, <<>>)

\* ---------------------------------------------------------------- variance
\* Mutant: the deviation is not squared.
RECURSIVE SquaresFromUnsquared(_, _, _, _)
SquaresFromUnsquared(values, avg, k, total) ==
    IF k > Len(values) THEN total
    ELSE SquaresFromUnsquared(values, avg, k + 1, FAdd(total, FSub(values[k], avg)))

\* diff = v - avg; total += diff * diff
RECURSIVE SquaresFrom(_, _, _, _)
SquaresFrom(values, avg, k, total) ==
    IF k > Len(values) THEN total
    ELSE LET diff == FSub(values[k], avg)
         IN  SquaresFrom(values, avg, k + 1, FAdd(total, FMul(diff, diff)))

variance(values, avg) == FDiv(SquaresFrom(values, avg, 1, 0), IntToFloat(Len(values)))

\* ------------------------------------------------------------ build_report
\* The numbers behind the report's lines; values is the caller's list as
\* the calls leave it.
build_report(values, invalid_count) ==
    LET sorted == selection_sort(values)
        vals == sorted.values
        avg == mean(vals)
        var == variance(vals, avg)
        std == sqrt_newton(var)
    IN  IF avg = ZeroDivisionError \/ std = ZeroDivisionError
        THEN [kind |-> "uncaught_ZeroDivisionError", values |-> vals]
        ELSE [kind |-> "statistics",
              values |-> vals,
              sorted_vals |-> sorted.arr,
              count |-> Len(vals),
              invalid |-> invalid_count,
              avg |-> avg,
              med |-> median(sorted.arr),
              modes |-> mode(vals),
              var |-> var,
              std |-> std]

\* Mutant: the list is never taken as empty.
NoValuesNever(values) == FALSE

\* if not values
NoValues(values) == values = <<>>

\* The lines main writes when no token is a number.
NoValidNumbers(invalid_count) == [kind |-> "no_valid_numbers", invalid |-> invalid_count]

NoReport == [kind |-> "none"]

\* ------------------------------------------------------------------ state
\* pc: where main (or the function called on its own) stands.
\* tokens, values, invalid, report: main's locals; done counts the tokens the
\* loop has consumed.  call: a call of parse_number on its own.
\* x, guess, step, ret: sqrt_newton's frame.
VARIABLES pc, tokens, done, values, invalid, report, call, x, guess, step, ret

vars == <<pc, tokens, done, values, invalid, report, call, x, guess, step, ret>>
mainVars == <<tokens, done, values, invalid, report>>
sqrtVars == <<x, guess, step, ret>>

NoCall == [token |-> <<>>, result |-> ValueError]

RECURSIVE StringsUpTo(_, _)
StringsUpTo(n, alphabet) ==
    IF n = 0 THEN {<<>>}
    ELSE LET shorter == StringsUpTo(n - 1, alphabet)
         IN  shorter \cup {Append(s, c) : s \in shorter, c \in alphabet}

RECURSIVE ListsUpTo(_, _)
ListsUpTo(n, S) ==
    IF n = 0 THEN {<<>>}
    ELSE LET shorter == ListsUpTo(n - 1, S)
         IN  shorter \cup {Append(l, e) : l \in shorter, e \in S}

\* ------------------------------------------------------------------- main
\* The tokens read_tokens can return: str.split() gives non-empty tokens
\* without whitespace.
MainTokens ==
    { <<"1">>, <<"2">>, <<"-", "1">>, <<"0", ".", "1">>, <<"0", ".", "2">>,
      <<"5", "0">>, <<"7", "7">>, <<"x">> }

Init ==
    /\ pc = "loop"
    /\ tokens \in ListsUpTo(MaxTokens, MainTokens)
    /\ done = 0
    /\ values = <<>>
    /\ invalid = 0
    /\ report = NoReport
    /\ call = NoCall
    /\ x = 0 /\ guess = 0 /\ step = 0 /\ ret = 0

\* for t in tokens: try: values.append(parse_number(t))
\*                  except ValueError: invalid += 1
\* Any other exception leaves main.
LoopBody ==
    /\ pc = "loop"
    /\ done < Len(tokens)
    /\ LET r == parse_number(tokens[done + 1])
       IN  \/ /\ r.kind = "ok"
              /\ values' = Append(values, r.val)
              /\ UNCHANGED invalid
              /\ done' = done + 1
              /\ pc' = "loop"
           \/ /\ r.kind = "ValueError"
              /\ invalid' = invalid + 1
              /\ UNCHANGED values
              /\ done' = done + 1
              /\ pc' = "loop"
           \/ /\ r.kind = "OverflowError"
              /\ pc' = "uncaught_OverflowError"
              /\ UNCHANGED <<values, invalid, done>>
    /\ UNCHANGED <<tokens, report, call, sqrtVars>>

\* if not values: the error lines are printed and written.  write_report
\* may fail with OSError (exit 1).
ReportNoValues ==
    /\ pc = "loop"
    /\ done = Len(tokens)
    /\ NoValues(values)
    /\ report' = NoValidNumbers(invalid)
    /\ \/ pc' = "exit_0"
       \/ pc' = "exit_1"
    /\ UNCHANGED <<tokens, done, values, invalid, call, sqrtVars>>

\* lines = build_report(...), printed and written; an exception raised in
\* build_report leaves main.
ReportStatistics ==
    /\ pc = "loop"
    /\ done = Len(tokens)
    /\ ~NoValues(values)
    /\ report' = build_report(values, invalid)
    /\ values' = report'.values
    /\ \/ pc' = IF report'.kind = "statistics" THEN "exit_0" ELSE report'.kind
       \/ pc' = IF report'.kind = "statistics" THEN "exit_1" ELSE report'.kind
    /\ UNCHANGED <<tokens, done, invalid, call, sqrtVars>>

Next == LoopBody \/ ReportNoValues \/ ReportStatistics

Spec == Init /\ [][Next]_vars

\* ------------------------------------------------ parse_number on its own
ParseAlphabet == {"0", "1", "7", "+", "-", ".", "a", " "}

InitParse ==
    /\ pc = "call_parse"
    /\ call \in {[token |-> t, result |-> ValueError] : t \in StringsUpTo(MaxTokLen, ParseAlphabet)}
    /\ tokens = <<>> /\ done = 0 /\ values = <<>> /\ invalid = 0 /\ report = NoReport
    /\ x = 0 /\ guess = 0 /\ step = 0 /\ ret = 0

CallParse ==
    /\ pc = "call_parse"
    /\ call' = [call EXCEPT !.result = parse_number(call.token)]
    /\ pc' = "parsed"
    /\ UNCHANGED <<mainVars, sqrtVars>>

NextParse == CallParse

SpecParse == InitParse /\ [][NextParse]_vars
\* ------------------------------------------------- sqrt_newton on its own
\* The finite floats >= 0.
NonNegFloats == {v \in 0..MaxFinite : Round(v, 1) = v}
\* What variance can hand to sqrt_newton: a float >= 0, inf included.
SqrtArguments == NonNegFloats \cup {Inf}

InitSqrt ==
    /\ pc = "sqrt_entry"
    /\ x \in SqrtArguments
    /\ guess = 0 /\ step = 0 /\ ret = 0
    /\ tokens = <<>> /\ done = 0 /\ values = <<>> /\ invalid = 0 /\ report = NoReport
    /\ call = NoCall

\* if x == 0.0: return 0.0; otherwise the seed.
SqrtEntry ==
    /\ pc = "sqrt_entry"
    /\ IF FEq(x, 0)
       THEN pc' = "sqrt_returned" /\ ret' = 0 /\ UNCHANGED guess
       ELSE pc' = "sqrt_loop" /\ guess' = SqrtSeed(x) /\ UNCHANGED ret
    /\ UNCHANGED <<x, step, mainVars, call>>

\* One pass of for _ in range(25).
SqrtStep ==
    /\ pc = "sqrt_loop"
    /\ step < SqrtIterations
    /\ IF NewtonStep(x, guess) = ZeroDivisionError
       THEN pc' = "uncaught_ZeroDivisionError" /\ UNCHANGED <<guess, step>>
       ELSE pc' = "sqrt_loop" /\ guess' = NewtonStep(x, guess) /\ step' = step + 1
    /\ UNCHANGED <<x, ret, mainVars, call>>

\* return guess
SqrtReturn ==
    /\ pc = "sqrt_loop"
    /\ step = SqrtIterations
    /\ ret' = guess
    /\ pc' = "sqrt_returned"
    /\ UNCHANGED <<x, guess, step, mainVars, call>>

NextSqrt == SqrtEntry \/ SqrtStep \/ SqrtReturn

SpecSqrt == InitSqrt /\ [][NextSqrt]_vars
\* ---------------------------------------------- selection_sort on its own
SortSample == {-One, 0, 6, One, 2 * One}

InitSort ==
    /\ pc = "call_sort"
    /\ call \in {[input |-> l, values |-> l, arr |-> <<>>, again |-> <<>>] :
                    l \in ListsUpTo(MaxSortLen, SortSample)}
    /\ tokens = <<>> /\ done = 0 /\ values = <<>> /\ invalid = 0 /\ report = NoReport
    /\ x = 0 /\ guess = 0 /\ step = 0 /\ ret = 0

\* sorted_vals = selection_sort(values)
CallSort ==
    /\ pc = "call_sort"
    /\ call' = [call EXCEPT !.arr = selection_sort(call.values).arr,
                            !.values = selection_sort(call.values).values]
    /\ pc' = "sorted"
    /\ UNCHANGED <<mainVars, sqrtVars>>

\* selection_sort(sorted_vals)
CallSortAgain ==
    /\ pc = "sorted"
    /\ call' = [call EXCEPT !.again = selection_sort(call.arr).arr]
    /\ pc' = "sorted_again"
    /\ UNCHANGED <<mainVars, sqrtVars>>

NextSort == CallSort \/ CallSortAgain

SpecSort == InitSort /\ [][NextSort]_vars
\* ================================================================= claims
\* ----------------------------------------------------- shared vocabulary
Min(S) == CHOOSE m \in S : \A e \in S : m <= e
Max(S) == CHOOSE m \in S : \A e \in S : m >= e
Range(f) == {f[i] : i \in DOMAIN f}
Occurrences(f, v) == Cardinality({i \in DOMAIN f : f[i] = v})
IsAscending(f) == \A i \in 1..(Len(f) - 1) : f[i] <= f[i + 1]

\* The token without its surrounding whitespace, stated from the positions
\* of its other characters.
Trimmed(t) ==
    LET inked == {i \in 1..Len(t) : t[i] \notin Whitespace}
    IN  IF inked = {} THEN <<>> ELSE SubSeq(t, Min(inked), Max(inked))

Exited == pc \in {"exit_0", "exit_1"}

\* ---------------------------------------------------------------------- C1
Malformed(s) ==
    \/ s = <<>>
    \/ \E i \in 1..Len(s) : s[i] \notin Digit \cup {"+", "-", "."}
    \/ Cardinality({i \in 1..Len(s) : s[i] = "."}) > 1
    \/ \E i \in 2..Len(s) : s[i] \in {"+", "-"}
    \/ \A i \in 1..Len(s) : s[i] \notin Digit

\* C1: parse_number raises ValueError for every token whose trimmed form is
\* empty, holds a character outside 0-9 + - ., holds more than one decimal
\* point, holds a sign after the first position, or holds no digit.
C1_RejectsMalformed ==
    (pc = "parsed" /\ Malformed(Trimmed(call.token))) => call.result = ValueError

\* A token with two decimal points between digits has been rejected.
C1_Witness ==
    /\ pc = "parsed"
    /\ call.token = <<"1", ".", "7", ".", "0">>
    /\ call.result = ValueError

\* ---------------------------------------------------------------------- C2
\* An optional sign, digits, optionally one point and digits, a digit at least.
WellFormed(s) ==
    /\ s # <<>>
    /\ LET body == IF s[1] \in {"+", "-"} THEN Tail(s) ELSE s
       IN  /\ \A i \in 1..Len(body) : body[i] \in Digit \cup {"."}
           /\ Cardinality({i \in 1..Len(body) : body[i] = "."}) <= 1
           /\ \E i \in 1..Len(body) : body[i] \in Digit

\* A digit run accumulated as value * 10 + digit.
RECURSIVE DigitRun(_)
DigitRun(d) ==
    IF d = <<>> THEN 0
    ELSE DigitRun(SubSeq(d, 1, Len(d) - 1)) * 10 + DigitVal(d[Len(d)])

RECURSIVE Pow10(_)
Pow10(n) == IF n = 0 THEN 1 ELSE 10 * Pow10(n - 1)

IntegerDigits(s) ==
    LET body == IF s[1] \in {"+", "-"} THEN Tail(s) ELSE s
        dots == {i \in 1..Len(body) : body[i] = "."}
    IN  IF dots = {} THEN body ELSE SubSeq(body, 1, Min(dots) - 1)

FractionDigits(s) ==
    LET body == IF s[1] \in {"+", "-"} THEN Tail(s) ELSE s
        dots == {i \in 1..Len(body) : body[i] = "."}
    IN  IF dots = {} THEN <<>> ELSE SubSeq(body, Min(dots) + 1, Len(body))

\* sign * (integerPart + fractionalPart / divisor), in float arithmetic.
SignedValue(s) ==
    LET sign == IF s[1] = "-" THEN -One ELSE One
        frac == FractionDigits(s)
    IN  FMul(sign, FAdd(IntToFloat(DigitRun(IntegerDigits(s))),
                        IntTrueDiv(DigitRun(frac), Pow10(Len(frac)))))

\* C2: for every token whose trimmed form is well formed, parse_number
\* returns sign * (integerPart + fractionalPart / divisor).
C2_ReturnsSignedValue ==
    (pc = "parsed" /\ WellFormed(Trimmed(call.token)))
        => call.result = Returned(SignedValue(Trimmed(call.token)))

\* C2, where the code keeps it: every well-formed token whose integer part
\* converts to a float gives the signed value.  Auxiliary to the C2 entry.
C2_ReturnsSignedValueWhenIntFits ==
    (/\ pc = "parsed"
     /\ WellFormed(Trimmed(call.token))
     /\ IntFits(DigitRun(IntegerDigits(Trimmed(call.token)))))
        => call.result = Returned(SignedValue(Trimmed(call.token)))

\* ---------------------------------------------------------------------- C3
\* The values of the tokens that parse, in the order of the tokens.
RECURSIVE ValuesOf(_)
ValuesOf(toks) ==
    IF toks = <<>> THEN <<>>
    ELSE LET before == ValuesOf(SubSeq(toks, 1, Len(toks) - 1))
             r == parse_number(toks[Len(toks)])
         IN  IF r.kind = "ok" THEN Append(before, r.val) ELSE before

InvalidOf(toks) == Cardinality({i \in 1..Len(toks) : parse_number(toks[i]).kind # "ok"})

\* C3: no token aborts the run; each token consumed is either appended to
\* values or counted invalid, so that after the loop len(values) + invalid
\* is the number of tokens and values holds the parsed tokens in order.
C3_EveryTokenCountedNeverAborts ==
    /\ pc # "uncaught_OverflowError"
    /\ Len(values) + invalid = done
    /\ values = ValuesOf(SubSeq(tokens, 1, done))
    /\ invalid = InvalidOf(SubSeq(tokens, 1, done))
    /\ Exited => done = Len(tokens)

C5_SortedPermutationInputKept ==
    pc \in {"sorted", "sorted_again"} =>
        /\ IsAscending(call.arr)
        /\ Len(call.arr) = Len(call.input)
        /\ \A v \in Range(call.input) \cup Range(call.arr) :
              Occurrences(call.arr, v) = Occurrences(call.input, v)
        /\ call.values = call.input

\* An unsorted list with a duplicate has been sorted.
C5_Witness ==
    /\ pc = "sorted"
    /\ call.input = <<2 * One, -One, 2 * One, 0>>
    /\ call.arr = <<-One, 0, 2 * One, 2 * One>>

\* ---------------------------------------------------------------------- C6
AllIdentical(f) == \A i, j \in DOMAIN f : f[i] = f[j]

\* C6 as stated: the variance is >= 0, and 0 exactly when all values are
\* identical.
C6_VarianceZeroIffIdentical ==
    report.kind = "statistics" =>
        /\ FGe(report.var, 0)
        /\ report.var = 0 <=> AllIdentical(report.values)

\* C6 amended: the variance is >= 0 (possibly infinite, never NaN), and it
\* is 0 when every value equals the computed mean, as a single value does.
C6_VarianceNonNegative ==
    report.kind = "statistics" =>
        /\ FGe(report.var, 0)
        /\ (\A i \in DOMAIN report.values : report.values[i] = report.avg) => report.var = 0
        /\ Len(report.values) = 1 => report.var = 0

\* Distinct values have given a finite variance above 0.
C6_Witness ==
    /\ report.kind = "statistics"
    /\ ~AllIdentical(report.values)
    /\ report.var > 0
    /\ IsFinite(report.var)

\* ---------------------------------------------------------------------- C7
FirstIndex(f, v) == Min({i \in DOMAIN f : f[i] = v})
MaxOccurrences(f) == Max({Occurrences(f, v) : v \in Range(f)})

\* modes is the most frequent values, each once, by first occurrence; empty
\* when nothing repeats.
IsModeOf(modes, f) ==
    IF MaxOccurrences(f) <= 1 THEN modes = <<>>
    ELSE /\ Range(modes) = {v \in Range(f) : Occurrences(f, v) = MaxOccurrences(f)}
         /\ \A i, j \in DOMAIN modes :
               i < j => FirstIndex(f, modes[i]) < FirstIndex(f, modes[j])

Floats(ints) == [i \in DOMAIN ints |-> IntToFloat(ints[i])]

\* C7: mode returns [] when no value repeats, otherwise the values with the
\* maximum count, each once, in the order of their first occurrence.
C7_ModeIsMostFrequentInFirstOccurrenceOrder ==
    /\ report.kind = "statistics" => IsModeOf(report.modes, report.values)
    /\ mode(Floats(<<1, 2, 2, 3>>)) = Floats(<<2>>)
    /\ mode(Floats(<<1, 2, 3>>)) = <<>>
    /\ mode(Floats(<<1, 1, 2, 2>>)) = Floats(<<1, 2>>)
    /\ mode(Floats(<<4, 8, 6, 5, 3, 2, 8, 9, 2, 5>>)) = Floats(<<8, 5, 2>>)

\* Two values tie for the maximum count and come out in first-occurrence
\* order, which is not ascending order.
C7_Witness ==
    /\ report.kind = "statistics"
    /\ report.values = <<2 * One, One, One, 2 * One>>
    /\ report.modes = <<2 * One, One>>

\* ---------------------------------------------------------------------- C8
\* C8: min(values) <= median <= max(values).
C8_MedianBetweenMinAndMax ==
    report.kind = "statistics" =>
        /\ FGe(report.med, Min(Range(report.values)))
        /\ FGe(Max(Range(report.values)), report.med)

\* ---------------------------------------------------------------------- C9
\* C9: selection_sort(selection_sort(v)) = selection_sort(v), and an
\* ascending sequence is returned as it is.
C9_SortIdempotent ==
    /\ pc = "sorted_again" => call.again = call.arr
    /\ (pc \in {"sorted", "sorted_again"} /\ IsAscending(call.input)) => call.arr = call.input

\* An unsorted list has been sorted twice.
C9_Witness ==
    /\ pc = "sorted_again"
    /\ ~IsAscending(call.input)
    /\ Len(call.input) = MaxSortLen
    /\ call.again = call.arr

\* --------------------------------------------------------------------- C10
\* x > 0 and x < 0 as Python decides them: false on NaN.
FGt(a, b) == ~IsNaN(a) /\ ~IsNaN(b) /\ a > b

\* C10 as stated: sqrt_newton returns 0 exactly when x = 0, and then without
\* a step; for every x > 0 it starts from max(x, 1), takes all 25 steps,
\* never divides by zero and returns a value above 0.
C10_SqrtPositiveForEveryPositive ==
    /\ pc # "uncaught_ZeroDivisionError"
    /\ pc = "sqrt_loop" =>
          /\ FGt(x, 0)
          /\ guess # 0
          /\ step = 0 => guess = Max({x, One})
    /\ pc = "sqrt_returned" =>
          /\ ret = 0 <=> x = 0
          /\ x = 0 => step = 0
          /\ FGt(x, 0) => (step = SqrtIterations /\ FGt(ret, 0))

\* C10 amended: as stated, but the value above 0 (a finite one) is returned
\* for every finite x > 0; for x = inf the steps give NaN.
C10_SqrtPositiveForEveryFinitePositive ==
    /\ pc # "uncaught_ZeroDivisionError"
    /\ pc = "sqrt_loop" =>
          /\ FGt(x, 0)
          /\ guess # 0
          /\ step = 0 => guess = Max({x, One})
          /\ IsFinite(x) => (IsFinite(guess) /\ guess > 0)
    /\ pc = "sqrt_returned" =>
          /\ ret = 0 <=> x = 0
          /\ x = 0 => step = 0
          /\ FGt(x, 0) => step = SqrtIterations
          /\ (IsFinite(x) /\ x > 0) => (IsFinite(ret) /\ ret > 0)
          /\ x = Inf => IsNaN(ret)

\* A value below 1 has been given a root above 0 after all the steps.
C10_Witness ==
    /\ pc = "sqrt_returned"
    /\ x > 0
    /\ x < One
    /\ step = SqrtIterations
    /\ IsFinite(ret)
    /\ ret > 0

\* --------------------------------------------------------------------- C11
\* The element at a 0-based index of a list.
At(f, i) == f[i + 1]

====
